---------------------------- MODULE Spec2Model ----------------------------
(***************************************************************************)
(* Model of the ai-translate notebook extension:                           *)
(*   - MessageJSONSerializer (deserializeNotebook / serializeNotebook),    *)
(*   - the ai-translate.configureParameters edit loop (recurse),           *)
(*   - the ai-translate.translateDocument driver.                          *)
(*                                                                         *)
(* Text is a sequence of one-character strings; the fixed prose of the     *)
(* program's prompts is written as runs of letters, which JSON writes and  *)
(* reads unchanged.  A JavaScript value is a tagged record [t, v]: t is    *)
(* the type tag and v the payload.  Numbers are naturals: no text of the   *)
(* model holds a sign, a fraction or a \u escape.                          *)
(***************************************************************************)
EXTENDS Integers, Sequences, FiniteSets, TLC

VARIABLES
    \* a run of the serializer
    phase,      \* "doc": a document to encode, "bytes": bytes to decode, "decoded"
    doc,        \* the ConversationDocument handed to the encoder, or NoDoc
    content,    \* the bytes handed to deserializeNotebook
    token,      \* the cancellation token handed over with them: is it raised
    notebook,   \* what deserializeNotebook produced, NotCalled before
    \* the open notebook document
    nbCells,    \* its cells
    nbMetadata, \* its metadata: { parameters }
    \* ai-translate.configureParameters
    session,    \* per invocation: where recurse stands and its locals
    ghost,      \* per invocation: what its last step was and what it read
    \* ai-translate.translateDocument
    driver,     \* where the command stands, its arguments and locals
    file,       \* the bytes written to the .llm file, NoFile before
    shown,      \* the messages shown to the user, in order
    running,    \* the cell executions in flight
    trace       \* what the command and the executions did, in order

serializerVars == <<phase, doc, content, token, notebook>>
driverVars == <<driver, file, shown, running, trace>>
loopVars == <<session, ghost>>

(***************************************************************************)
(* JavaScript values                                                       *)
(***************************************************************************)
Undefined == [t |-> "undefined", v |-> <<>>]
JNull     == [t |-> "null", v |-> <<>>]
JBool(b)  == [t |-> "bool", v |-> b]
JNum(n)   == [t |-> "num", v |-> n]
JStr(s)   == [t |-> "str", v |-> s]
JArr(xs)  == [t |-> "arr", v |-> xs]
\* an object is its own enumerable properties in insertion order: <<key, value>>
JObj(es)  == [t |-> "obj", v |-> es]

\* F(x), with x computed once
With(x, F(_)) == CHOOSE y \in {F(v) : v \in {x}} : TRUE

\* the ?? operator takes its right operand for null and undefined
Nullish(x) == x.t \in {"undefined", "null"}

OwnKeys(o) == {o.v[i][1] : i \in 1..Len(o.v)}

\* o[k] for a non-null o: undefined unless o is an object with property k
Get(o, k) ==
    IF o.t = "obj" /\ k \in OwnKeys(o)
    THEN o.v[CHOOSE i \in 1..Len(o.v) : o.v[i][1] = k][2]
    ELSE Undefined

\* o[k] = x on the property list es: in place when k exists, appended otherwise
SetProp(es, k, x) ==
    IF \E i \in 1..Len(es) : es[i][1] = k
    THEN [i \in 1..Len(es) |-> IF es[i][1] = k THEN <<k, x>> ELSE es[i]]
    ELSE Append(es, <<k, x>>)

\* delete o[k] on the property list es
DeleteProp(es, k) == SelectSeq(es, LAMBDA e : e[1] # k)

K_messages   == <<"m", "e", "s", "s", "a", "g", "e", "s">>
K_parameters == <<"p", "a", "r", "a", "m", "e", "t", "e", "r", "s">>
K_content    == <<"c", "o", "n", "t", "e", "n", "t">>
K_role       == <<"r", "o", "l", "e">>

(***************************************************************************)
(* JSON.parse                                                              *)
(***************************************************************************)
Whitespace == {" ", "\n", "\t", "\r"}
BS == "<BS>"
FF == "<FF>"
ControlChars == {"\n", "\t", "\r", BS, FF}
Digits == <<"0", "1", "2", "3", "4", "5", "6", "7", "8", "9">>
DigitSet == {Digits[i] : i \in 1..10}
DigitVal(c) == (CHOOSE i \in 1..10 : Digits[i] = c) - 1

Fail == [ok |-> FALSE, val |-> Undefined, next |-> 0]
Ok(x, n) == [ok |-> TRUE, val |-> x, next |-> n]

RECURSIVE SkipWs(_, _)
SkipWs(s, i) ==
    IF i <= Len(s) /\ s[i] \in Whitespace THEN SkipWs(s, i + 1) ELSE i

StartsWith(s, i, lit) ==
    /\ i + Len(lit) - 1 <= Len(s)
    /\ SubSeq(s, i, i + Len(lit) - 1) = lit

\* the character an escape \c stands for, as a one-element text; <<>> if none
Unescape(c) ==
    CASE c = "\"" -> <<"\"">>
      [] c = "\\" -> <<"\\">>
      [] c = "/"  -> <<"/">>
      [] c = "n"  -> <<"\n">>
      [] c = "t"  -> <<"\t">>
      [] c = "r"  -> <<"\r">>
      [] c = "b"  -> <<BS>>
      [] c = "f"  -> <<FF>>
      [] OTHER    -> <<>>

\* the rest of a string literal, from position i, after its opening quote
RECURSIVE StrBody(_, _, _)
StrBody(s, i, acc) ==
    IF i > Len(s) THEN Fail
    ELSE IF s[i] = "\"" THEN Ok(JStr(acc), i + 1)
    ELSE IF s[i] = "\\" THEN
        IF i + 1 > Len(s) \/ Unescape(s[i + 1]) = <<>> THEN Fail
        ELSE StrBody(s, i + 2, acc \o Unescape(s[i + 1]))
    ELSE IF s[i] \in ControlChars THEN Fail
    ELSE StrBody(s, i + 1, Append(acc, s[i]))

\* a run of digits from position i: [val, next]
RECURSIVE DigitRun(_, _, _)
DigitRun(s, i, acc) ==
    IF i <= Len(s) /\ s[i] \in DigitSet
    THEN DigitRun(s, i + 1, 10 * acc + DigitVal(s[i]))
    ELSE [val |-> acc, next |-> i]

RECURSIVE Pow10(_)
Pow10(k) == IF k = 0 THEN 1 ELSE 10 * Pow10(k - 1)

\* 0 | [1-9][0-9]* , then an optional exponent e[0-9]+
ParseNumber(s, i) ==
    LET int == IF s[i] = "0" THEN [val |-> 0, next |-> i + 1]
               ELSE DigitRun(s, i, 0)
        j   == int.next
    IN  IF j <= Len(s) /\ s[j] \in {"e", "E"} THEN
            IF j + 1 <= Len(s) /\ s[j + 1] \in DigitSet
            THEN LET ex == DigitRun(s, j + 1, 0)
                 IN  Ok(JNum(int.val * Pow10(ex.val)), ex.next)
            ELSE Fail
        ELSE Ok(JNum(int.val), j)

L_null  == <<"n", "u", "l", "l">>
L_true  == <<"t", "r", "u", "e">>
L_false == <<"f", "a", "l", "s", "e">>

RECURSIVE ParseValue(_, _)
RECURSIVE ParseElems(_, _, _)
RECURSIVE ParseMembers(_, _, _)

\* the elements of an array, from the first one at position i
ParseElems(s, i, acc) ==
    With(ParseValue(s, i), LAMBDA r :
        IF ~r.ok THEN Fail
        ELSE With(SkipWs(s, r.next), LAMBDA k :
            IF k > Len(s) THEN Fail
            ELSE IF s[k] = ","
            THEN ParseElems(s, SkipWs(s, k + 1), Append(acc, r.val))
            ELSE IF s[k] = "]" THEN Ok(JArr(Append(acc, r.val)), k + 1)
            ELSE Fail))

\* the members of an object, from the first key at position i; a key that
\* comes again takes the later value
ParseMembers(s, i, acc) ==
    IF i > Len(s) \/ s[i] # "\"" THEN Fail
    ELSE With(StrBody(s, i + 1, <<>>), LAMBDA key :
        IF ~key.ok THEN Fail
        ELSE With(SkipWs(s, key.next), LAMBDA c :
            IF c > Len(s) \/ s[c] # ":" THEN Fail
            ELSE With(ParseValue(s, SkipWs(s, c + 1)), LAMBDA r :
                IF ~r.ok THEN Fail
                ELSE With(SkipWs(s, r.next), LAMBDA k :
                    IF k > Len(s) THEN Fail
                    ELSE IF s[k] = ","
                    THEN ParseMembers(s, SkipWs(s, k + 1),
                                      SetProp(acc, key.val.v, r.val))
                    ELSE IF s[k] = "}"
                    THEN Ok(JObj(SetProp(acc, key.val.v, r.val)), k + 1)
                    ELSE Fail))))

ParseValue(s, i) ==
    IF i > Len(s) THEN Fail
    ELSE IF s[i] = "\"" THEN StrBody(s, i + 1, <<>>)
    ELSE IF s[i] \in DigitSet THEN ParseNumber(s, i)
    ELSE IF StartsWith(s, i, L_null) THEN Ok(JNull, i + 4)
    ELSE IF StartsWith(s, i, L_true) THEN Ok(JBool(TRUE), i + 4)
    ELSE IF StartsWith(s, i, L_false) THEN Ok(JBool(FALSE), i + 5)
    ELSE IF s[i] = "[" THEN
        LET j == SkipWs(s, i + 1)
        IN  IF j <= Len(s) /\ s[j] = "]" THEN Ok(JArr(<<>>), j + 1)
            ELSE ParseElems(s, j, <<>>)
    ELSE IF s[i] = "{" THEN
        LET j == SkipWs(s, i + 1)
        IN  IF j <= Len(s) /\ s[j] = "}" THEN Ok(JObj(<<>>), j + 1)
            ELSE ParseMembers(s, j, <<>>)
    ELSE Fail

\* JSON.parse(s): [ok |-> TRUE, val] or, when it throws, [ok |-> FALSE]
JSONparse(text) ==
    With(text, LAMBDA s :
        With(ParseValue(s, SkipWs(s, 1)), LAMBDA r :
            IF r.ok /\ SkipWs(s, r.next) = Len(s) + 1
            THEN [ok |-> TRUE, val |-> r.val]
            ELSE [ok |-> FALSE, val |-> Undefined]))

(***************************************************************************)
(* JSON.stringify(value, null, gap)                                        *)
(***************************************************************************)
EscapeChar(c) ==
    CASE c = "\"" -> <<"\\", "\"">>
      [] c = "\\" -> <<"\\", "\\">>
      [] c = "\n" -> <<"\\", "n">>
      [] c = "\t" -> <<"\\", "t">>
      [] c = "\r" -> <<"\\", "r">>
      [] c = BS   -> <<"\\", "b">>
      [] c = FF   -> <<"\\", "f">>
      [] OTHER    -> <<c>>

RECURSIVE Escape(_)
Escape(s) == IF s = <<>> THEN <<>> ELSE EscapeChar(Head(s)) \o Escape(Tail(s))

Quote(s) == <<"\"">> \o Escape(s) \o <<"\"">>

RECURSIVE NumChars(_)
NumChars(n) ==
    IF n < 10 THEN <<Digits[n + 1]>>
    ELSE NumChars(n \div 10) \o <<Digits[(n % 10) + 1]>>

Spaces(n) == [i \in 1..n |-> " "]
\* the line break before an item at indentation ind (nothing when gap = 0)
Break(gap, ind) == IF gap = 0 THEN <<>> ELSE <<"\n">> \o Spaces(ind)

RECURSIVE Str(_, _, _)
RECURSIVE JoinElems(_, _, _)
RECURSIVE JoinMembers(_, _, _)

\* array elements xs, each on its own line at indentation ind
JoinElems(xs, gap, ind) ==
    LET x    == Head(xs)
        \* an undefined element is written null
        item == IF x.t = "undefined" THEN L_null ELSE Str(x, gap, ind)
    IN  item \o (IF Len(xs) = 1 THEN <<>>
                 ELSE <<",">> \o Break(gap, ind) \o JoinElems(Tail(xs), gap, ind))

JoinMembers(es, gap, ind) ==
    LET e    == Head(es)
        item == Quote(e[1]) \o <<":">> \o (IF gap = 0 THEN <<>> ELSE <<" ">>)
                \o Str(e[2], gap, ind)
    IN  item \o (IF Len(es) = 1 THEN <<>>
                 ELSE <<",">> \o Break(gap, ind) \o JoinMembers(Tail(es), gap, ind))

Str(x, gap, ind) ==
    CASE x.t = "null" -> L_null
      [] x.t = "bool" -> IF x.v THEN L_true ELSE L_false
      [] x.t = "num"  -> NumChars(x.v)
      [] x.t = "str"  -> Quote(x.v)
      [] x.t = "arr"  ->
            IF x.v = <<>> THEN <<"[", "]">>
            ELSE <<"[">> \o Break(gap, ind + gap) \o JoinElems(x.v, gap, ind + gap)
                 \o Break(gap, ind) \o <<"]">>
      [] x.t = "obj"  ->
            \* a property whose value is undefined is left out
            LET es == SelectSeq(x.v, LAMBDA e : e[2].t # "undefined")
            IN  IF es = <<>> THEN <<"{", "}">>
                ELSE <<"{">> \o Break(gap, ind + gap) \o JoinMembers(es, gap, ind + gap)
                     \o Break(gap, ind) \o <<"}">>

JSONstringify(x, gap) == Str(x, gap, 0)


(***************************************************************************)
(* MessageJSONSerializer                                                   *)
(***************************************************************************)
SeedSystemText ==
    <<"You are a translator. You will translate the content provided and ",
      "return it as valid markdown">>
SeedUserText ==
    <<"Insert translation content here">>
R_system    == <<"s", "y", "s", "t", "e", "m">>
R_user      == <<"u", "s", "e", "r">>
R_assistant == <<"a", "s", "s", "i", "s", "t", "a", "n", "t">>

SerializedNotebook(messages, parameters) ==
    JObj(<< <<K_messages, messages>>, <<K_parameters, parameters>> >>)

\* a default document whose user turn is missing
defaultSerializedNotebookNoUser(contentToTranslate) ==
    SerializedNotebook(
        JArr(<< JObj(<< <<K_content, JStr(SeedSystemText)>>,
                        <<K_role, JStr(R_system)>> >>) >>),
        JObj(<<>>))

defaultSerializedNotebook(contentToTranslate) ==
    SerializedNotebook(
        JArr(<< JObj(<< <<K_content, JStr(SeedSystemText)>>,
                        <<K_role, JStr(R_system)>> >>),
                JObj(<< <<K_content, IF Nullish(contentToTranslate)
                                     THEN JStr(SeedUserText)
                                     ELSE contentToTranslate>>,
                        <<K_role, JStr(R_user)>> >>) >>),
        JObj(<<>>))

\* the model's characters are ASCII: one byte each, the same in both directions
TextDecode(bytes) == bytes
TextEncode(str) == str

\* new vscode.NotebookCellData(kind, value, languageId)
NotebookCellData(kind, value, languageId) ==
    [kind |-> kind, value |-> value, languageId |-> languageId]

\* a NotebookData, or the exception that left the call (threw)
NotebookData(cells, metadata) ==
    [threw |-> FALSE, cells |-> cells, metadata |-> metadata]
Thrown == [threw |-> TRUE, cells |-> <<>>, metadata |-> Undefined]
NotCalled == [threw |-> FALSE, cells |-> <<>>, metadata |-> JNull]

\* what for (const x of v) runs over; only arrays and strings are iterable here
IsIterable(x) == x.t \in {"arr", "str"}
Iterate(x) ==
    IF x.t = "arr" THEN x.v ELSE [i \in 1..Len(x.v) |-> JStr(<<x.v[i]>>)]

\* the cells of the messages, or the TypeError of the loop over them
CellsOf(messages) ==
    \* for..of over a value that is not iterable is a TypeError
    IF ~IsIterable(messages) THEN Thrown
    ELSE With(Iterate(messages), LAMBDA cells :
        \* cell.content of a null entry is a TypeError
        IF \E i \in 1..Len(cells) : Nullish(cells[i]) THEN Thrown
        ELSE NotebookData(
                [i \in 1..Len(cells) |->
                    NotebookCellData("Code", Get(cells[i], K_content),
                                     Get(cells[i], K_role))],
                Undefined))

\* a decoder that does not wrap a bare list
deserializeNotebookNoLegacy(bytes) ==
    With(JSONparse(TextDecode(bytes)), LAMBDA parsed :
        LET serialized == IF parsed.ok THEN parsed.val
                          ELSE defaultSerializedNotebook(Undefined)
        IN  IF Nullish(serialized) THEN Thrown
            ELSE With(CellsOf(Get(serialized, K_messages)), LAMBDA cells :
                IF cells.threw THEN Thrown
                ELSE NotebookData(cells.cells,
                        JObj(<< <<K_parameters,
                                  Get(serialized, K_parameters)>> >>))))

deserializeNotebook(bytes) ==
    With(JSONparse(TextDecode(bytes)), LAMBDA parsed :
        LET serialized ==
                IF parsed.ok
                THEN IF parsed.val.t = "arr"
                     THEN SerializedNotebook(parsed.val, JObj(<<>>))
                     ELSE parsed.val
                ELSE defaultSerializedNotebook(Undefined)
        IN  \* serialized.messages of null is a TypeError
            IF Nullish(serialized) THEN Thrown
            ELSE With(CellsOf(Get(serialized, K_messages)), LAMBDA cells :
                IF cells.threw THEN Thrown
                ELSE NotebookData(cells.cells,
                        JObj(<< <<K_parameters,
                                  Get(serialized, K_parameters)>> >>))))

serializeNotebookSwapped(data) ==
    LET code == SelectSeq(data.cells, LAMBDA cell : cell.kind = "Code")
        rawCells == [i \in 1..Len(code) |->
                        JObj(<< <<K_content, code[i].languageId>>,
                                <<K_role, code[i].value>> >>)]
        parameters == IF Nullish(data.metadata) THEN Undefined
                      ELSE Get(data.metadata, K_parameters)
    IN  TextEncode(JSONstringify(
            SerializedNotebook(JArr(rawCells),
                               IF Nullish(parameters) THEN JObj(<<>>) ELSE parameters),
            2))

\* an encoder that writes the cells of every kind
serializeNotebookNoFilter(data) ==
    LET rawCells == [i \in 1..Len(data.cells) |->
                        JObj(<< <<K_content, data.cells[i].value>>,
                                <<K_role, data.cells[i].languageId>> >>)]
        parameters == IF Nullish(data.metadata) THEN Undefined
                      ELSE Get(data.metadata, K_parameters)
    IN  TextEncode(JSONstringify(
            SerializedNotebook(JArr(rawCells),
                               IF Nullish(parameters) THEN JObj(<<>>) ELSE parameters),
            2))

serializeNotebook(data) ==
    LET code == SelectSeq(data.cells, LAMBDA cell : cell.kind = "Code")
        rawCells == [i \in 1..Len(code) |->
                        JObj(<< <<K_content, code[i].value>>,
                                <<K_role, code[i].languageId>> >>)]
        \* data.metadata?.parameters
        parameters == IF Nullish(data.metadata) THEN Undefined
                      ELSE Get(data.metadata, K_parameters)
    IN  TextEncode(JSONstringify(
            SerializedNotebook(JArr(rawCells),
                               IF Nullish(parameters) THEN JObj(<<>>) ELSE parameters),
            2))


(***************************************************************************)
(* Runs of the serializer: a document is encoded and the bytes decoded, or *)
(* bytes from the file are decoded.                                        *)
(***************************************************************************)
MaxMessages == 2
MaxBytes == 3

B_null ==
    <<"n", "u", "l", "l">>
B_number ==
    <<"4", "2">>
B_true ==
    <<"t", "r", "u", "e">>
B_string ==
    <<"\"", "s", "t", "r", "\"">>
B_emptyObject ==
    <<"{", "}">>
B_noMessages ==
    <<"{", "\"", "p", "a", "r", "a", "m", "e", "t", "e", "r", "s", "\"",
      ":", "{", "}", "}">>
B_noParameters ==
    <<"{", "\"", "m", "e", "s", "s", "a", "g", "e", "s", "\"", ":", "[",
      "]", "}">>
B_wrapped ==
    <<"{", "\"", "m", "e", "s", "s", "a", "g", "e", "s", "\"", ":", "[",
      "{", "\"", "r", "o", "l", "e", "\"", ":", "\"", "u", "s", "e",
      "r", "\"", ",", "\"", "c", "o", "n", "t", "e", "n", "t", "\"",
      ":", "\"", "a", "\"", "}", "]", ",", "\"", "p", "a", "r", "a",
      "m", "e", "t", "e", "r", "s", "\"", ":", "{", "\"", "k", "\"",
      ":", "1", "}", "}">>
B_legacy ==
    <<"[", "{", "\"", "r", "o", "l", "e", "\"", ":", "\"", "u", "s",
      "e", "r", "\"", ",", "\"", "c", "o", "n", "t", "e", "n", "t",
      "\"", ":", "\"", "a", "\"", "}", "]">>
B_legacyTwo ==
    <<"[", "{", "\"", "r", "o", "l", "e", "\"", ":", "\"", "s", "y", "s",
      "t", "e", "m", "\"", ",", "\"", "c", "o", "n", "t", "e", "n", "t",
      "\"", ":", "\"", "a", "\"", "}", ",", "{", "\"", "c", "o", "n", "t",
      "e", "n", "t", "\"", ":", "\"", "b", "\"", ",", "\"", "r", "o", "l",
      "e", "\"", ":", "\"", "u", "s", "e", "r", "\"", "}", "]">>
B_notJSON ==
    <<"n", "o", "t", " ", "j", "s", "o", "n">>
B_nullEntry ==
    <<"{", "\"", "m", "e", "s", "s", "a", "g", "e", "s", "\"", ":", "[",
      "n", "u", "l", "l", "]", "}">>
B_stringMessages ==
    <<"{", "\"", "m", "e", "s", "s", "a", "g", "e", "s", "\"", ":",
      "\"", "a", "b", "\"", "}">>
B_numberMessages ==
    <<"{", "\"", "m", "e", "s", "s", "a", "g", "e", "s", "\"", ":", "7",
      "}">>
B_truncated ==
    <<"{", "\"", "m", "e", "s", "s", "a", "g", "e", "s", "\"", ":", "[">>
T_translator ==
    <<"Y", "o", "u", " ", "a", "r", "e", " ", "a", " ", "t", "r", "a",
      "n", "s", "l", "a", "t", "o", "r", ".">>
T_bonjour ==
    <<"B", "o", "n", "j", "o", "u", "r">>
T_lang ==
    <<"l", "a", "n", "g">>
T_English ==
    <<"E", "n", "g", "l", "i", "s", "h">>

\* every text of at most n characters over the alphabet
TextsOver(alphabet, n) == UNION {[1..k -> alphabet] : k \in 0..n}

ByteAlphabet == {"\"", "1", "[", "]", "a"}
SampleBytes ==
    {B_null, B_number, B_true, B_string, B_emptyObject, B_noMessages,
     B_noParameters, B_wrapped, B_legacy, B_legacyTwo, B_notJSON, B_nullEntry,
     B_stringMessages, B_numberMessages, B_truncated}
ByteInputs == TextsOver(ByteAlphabet, MaxBytes) \cup SampleBytes

MessagePool ==
    {[role |-> R_system, content |-> T_translator],
     [role |-> R_user, content |-> T_bonjour],
     [role |-> R_assistant, content |-> <<"a", "\"", "\\", "\n", "{", " ">>],
     [role |-> <<"x", "\"">>, content |-> <<>>]}

ParameterPool ==
    {JObj(<<>>),
     JObj(<< <<T_lang, JStr(T_English)>> >>),
     JObj(<< <<<<"k">>, JNum(42)>>,
             <<<<"a", "\"", "b">>,
               JArr(<<JNull, JBool(TRUE), JObj(<< <<<<"n">>, JStr(<<>>)>> >>)>>)>> >>),
     JObj(<< <<<<"k">>, JStr(<<>>)>>, <<<<"m">>, JBool(FALSE)>>,
             <<<<"o">>, JObj(<<>>)>> >>),
     JObj(<< <<<<"k">>, JStr(<<"4", "2">>)>>, <<<<"z">>, JArr(<<>>)>>,
             <<<<"n">>, JNull>> >>)}

\* a document and, in markup, the places of the notebook's markup cells: one
\* stands after the first i code cells for every i of the set
Documents ==
    UNION {[messages   : [1..k -> MessagePool],
            parameters : ParameterPool,
            markup     : SUBSET (0..k)] : k \in 0..MaxMessages}
NoDoc == [messages |-> <<>>, parameters |-> Undefined, markup |-> {}]

\* the host's cell view of a document: one code cell per message, the role as
\* its language tag, the parameters in the notebook's metadata
CellView(d) ==
    NotebookData(
        [i \in 1..Len(d.messages) |->
            NotebookCellData("Code", JStr(d.messages[i].content),
                             JStr(d.messages[i].role))],
        JObj(<< <<K_parameters, d.parameters>> >>))

\* a cell of another kind than code
MarkupCell == NotebookCellData("Markup", JStr(<<"#", " ", "a">>), JStr(<<"markdown">>))

\* the notebook the host hands to serializeNotebook: the code cells of the
\* document and the markup cells between them
RECURSIVE CellsFrom(_, _)
CellsFrom(d, i) ==
    (IF i \in d.markup THEN <<MarkupCell>> ELSE <<>>)
    \o (IF i < Len(d.messages)
        THEN <<CellView(d).cells[i + 1]>> \o CellsFrom(d, i + 1)
        ELSE <<>>)
NotebookOf(d) == NotebookData(CellsFrom(d, 0), CellView(d).metadata)

SerializerIdle ==
    /\ phase = "idle"
    /\ doc = NoDoc
    /\ content = <<>>
    /\ token = FALSE
    /\ notebook = NotCalled

Serialize ==
    /\ phase = "doc"
    /\ content' = serializeNotebook(NotebookOf(doc))
    /\ phase' = "bytes"
    /\ UNCHANGED <<doc, token, notebook, nbCells, nbMetadata, session, ghost>>
    /\ UNCHANGED driverVars

Deserialize ==
    /\ phase = "bytes"
    /\ notebook' = deserializeNotebook(content)
    /\ phase' = "decoded"
    /\ UNCHANGED <<doc, content, token, nbCells, nbMetadata, session, ghost>>
    /\ UNCHANGED driverVars

NextSerializer == Serialize \/ Deserialize


(***************************************************************************)
(* ai-translate.configureParameters: the parameter edit loop               *)
(***************************************************************************)
B_twoParameters ==
    <<"{", "\"", "m", "e", "s", "s", "a", "g", "e", "s", "\"", ":", "[",
      "{", "\"", "r", "o", "l", "e", "\"", ":", "\"", "s", "y", "s",
      "t", "e", "m", "\"", ",", "\"", "c", "o", "n", "t", "e", "n", "t",
      "\"", ":", "\"", "a", "\"", "}", "]", ",", "\"", "p", "a", "r",
      "a", "m", "e", "t", "e", "r", "s", "\"", ":", "{", "\"", "l", "a",
      "n", "g", "\"", ":", "\"", "E", "n", "g", "l", "i", "s", "h",
      "\"", ",", "\"", "k", "\"", ":", "\"", "\"", "}", "}">>
T_empty ==
    <<>>
T_42 ==
    <<"4", "2">>
T_emptyString ==
    <<"\"", "\"">>
T_quoted ==
    <<"\"", "a", "\"">>
T_quoted42 ==
    <<"\"", "4", "2", "\"">>
T_notValid ==
    <<"n", "o", "t", " ", "v", "a", "l", "i", "d", " ", "j", "s", "o",
      "n", " ", "{">>
T_quoteInside ==
    <<"n", "o", "t", " ", "\"", "v", "a", "l", "i", "d", " ", "j", "s",
      "o", "n", " ", "{">>
T_object ==
    <<"{", "\"", "a", "\"", ":", " ", "1", "}">>
T_backslash ==
    <<"a", "\\">>
T_array ==
    <<"[", "1", ",", "\"", "a", "\"", "]">>

ValidationMessage == "Format nontrivial input as JSON"
NoMessage == "none"

tryJSON(str) == With(JSONparse(str), LAMBDA r : IF r.ok THEN r.val ELSE Undefined)

\* the parse of the quoted text is tried first
loosyGoosyJSONWrapFirst(v) ==
    With(tryJSON(<<"\"">> \o v \o <<"\"">>), LAMBDA wrapped :
        IF Nullish(wrapped) THEN tryJSON(v) ELSE wrapped)

loosyGoosyJSON(v) ==
    With(tryJSON(v), LAMBDA strict :
        IF Nullish(strict) THEN tryJSON(<<"\"">> \o v \o <<"\"">>) ELSE strict)

validateInputNothing(v) == NoMessage

validateInput(v) ==
    IF loosyGoosyJSON(v) = Undefined THEN ValidationMessage ELSE NoMessage

\* the own enumerable properties of x, as Object.entries and {...x} see them
IndexEntries(xs) == [i \in 1..Len(xs) |-> <<NumChars(i - 1), xs[i]>>]
ObjectEntries(x) ==
    CASE x.t = "obj" -> x.v
      [] x.t = "arr" -> IndexEntries(x.v)
      [] x.t = "str" -> IndexEntries([i \in 1..Len(x.v) |-> JStr(<<x.v[i]>>)])
      [] OTHER -> <<>>

\* the picker's entries for the existing parameters
Existing(parameters) ==
    [i \in 1..Len(ObjectEntries(parameters)) |->
        [label       |-> ObjectEntries(parameters)[i][1],
         description |-> JSONstringify(ObjectEntries(parameters)[i][2], 0),
         value       |-> ObjectEntries(parameters)[i][2]]]

\* the parameters of the edit: a copy of the current ones with key deleted for
\* the empty string and set to the parsed value otherwise
NewParametersPatch(parameters, key, parsed) ==
    IF parsed = JStr(<<>>) THEN <<>> ELSE <<<<key, parsed>>>>

\* the empty string is stored like any other value
NewParametersKeepsEmpty(parameters, key, parsed) ==
    SetProp(ObjectEntries(parameters), key, parsed)

NewParameters(parameters, key, parsed) ==
    IF parsed = JStr(<<>>)
    THEN DeleteProp(ObjectEntries(parameters), key)
    ELSE SetProp(ObjectEntries(parameters), key, parsed)

Parameters == Get(nbMetadata, K_parameters)

NoEdit == JNull
IdleSession ==
    [pc |-> "idle", target |-> "none", listed |-> <<>>, key |-> <<>>,
     value |-> Undefined, message |-> NoMessage, edit |-> NoEdit]
NoGhost ==
    [event |-> "none", input |-> <<>>, parsed |-> Undefined,
     read |-> Undefined, cells |-> <<>>, start |-> Undefined]

\* the files a notebook is opened from
OpenedFiles == {B_wrapped, B_legacy, B_noParameters, B_twoParameters}
\* the names and the values the user types
Names == {<<"k">>, T_lang}
ValueTexts ==
    {T_empty, T_42, L_null, L_true, T_emptyString, T_quoted, T_quoted42,
     T_English, T_notValid, T_quoteInside, T_object, T_backslash, T_array}

\* the values typed in the runs where two invocations overlap
OverlapTexts == {T_42, T_backslash}
Overlapping == Cardinality(DOMAIN session) > 1

\* the invocations of the command in a run, none of them started
Invocations(S) ==
    /\ session = [s \in S |-> IdleSession]
    /\ ghost = [s \in S |-> NoGhost]

\* the notebook document the host opens from the bytes of a file
NotebookFrom(bytes) ==
    \E nb \in {deserializeNotebook(bytes)} :
        /\ ~nb.threw
        /\ nbCells = nb.cells
        /\ nbMetadata = nb.metadata

\* a step of invocation s of the command
Step(s, to, event) ==
    /\ session' = [session EXCEPT ![s] = to]
    /\ ghost' = [ghost EXCEPT ![s] = event]
    /\ UNCHANGED <<serializerVars, driverVars>>

SessionIds == {"s1", "s2"}
\* invocation s of this run stands at pc
At(s, pc) == s \in DOMAIN session /\ session[s].pc = pc

\* the command is invoked; its argument or the active editor names a
\* notebook of this type, or none
Invoke(s) ==
    /\ At(s, "idle")
    /\ \E target \in {"notebook", "none"} :
         Step(s, [session[s] EXCEPT !.pc = "recurse", !.target = target],
              [NoGhost EXCEPT !.event = "invoked"])
    /\ UNCHANGED <<nbCells, nbMetadata>>

\* recurse finds no notebook: the error message, return
NoNotebook(s) ==
    /\ At(s, "recurse")
    /\ session[s].target = "none"
    /\ Step(s, [session[s] EXCEPT !.pc = "ended"],
            [NoGhost EXCEPT !.event = "noNotebook"])
    /\ UNCHANGED <<nbCells, nbMetadata>>

\* Object.entries of undefined or null is a TypeError
ListingThrows(s) ==
    /\ At(s, "recurse")
    /\ session[s].target = "notebook"
    /\ Nullish(Parameters)
    /\ Step(s, [session[s] EXCEPT !.pc = "ended"],
            [NoGhost EXCEPT !.event = "TypeError"])
    /\ UNCHANGED <<nbCells, nbMetadata>>

ShowPicker(s) ==
    /\ At(s, "recurse")
    /\ session[s].target = "notebook"
    /\ ~Nullish(Parameters)
    /\ Step(s, [session[s] EXCEPT !.pc = "pick", !.listed = Existing(Parameters),
                                  !.key = <<>>, !.value = Undefined,
                                  !.message = NoMessage],
            [NoGhost EXCEPT !.event = "shown", !.start = Parameters])
    /\ UNCHANGED <<nbCells, nbMetadata>>

DismissPicker(s) ==
    /\ At(s, "pick")
    /\ Step(s, [session[s] EXCEPT !.pc = "ended"],
            [ghost[s] EXCEPT !.event = "dismissPicker"])
    /\ UNCHANGED <<nbCells, nbMetadata>>

PickNew(s) ==
    /\ At(s, "pick")
    /\ Step(s, [session[s] EXCEPT !.pc = "name"],
            [ghost[s] EXCEPT !.event = "pickNew"])
    /\ UNCHANGED <<nbCells, nbMetadata>>

PickExisting(s) ==
    /\ At(s, "pick")
    /\ \E i \in 1..Len(session[s].listed) :
         Step(s, [session[s] EXCEPT !.pc = "value",
                                    !.key = session[s].listed[i].label,
                                    !.value = JStr(session[s].listed[i].description)],
              [ghost[s] EXCEPT !.event = "picked"])
    /\ UNCHANGED <<nbCells, nbMetadata>>

\* the name prompt is dismissed or left empty
NoName(s) ==
    /\ At(s, "name")
    /\ Step(s, [session[s] EXCEPT !.pc = "ended"],
            [ghost[s] EXCEPT !.event = "noName"])
    /\ UNCHANGED <<nbCells, nbMetadata>>

EnterName(s) ==
    /\ At(s, "name")
    /\ \E name \in Names :
         Step(s, [session[s] EXCEPT !.pc = "value", !.key = name],
              [ghost[s] EXCEPT !.event = "named"])
    /\ UNCHANGED <<nbCells, nbMetadata>>

\* what the user may enter in the value prompt: a text of their own or the
\* pre-filled one
Enterable(s) ==
    (IF Overlapping THEN OverlapTexts ELSE ValueTexts)
    \cup (IF session[s].value.t = "str" THEN {session[s].value.v} ELSE {})

\* the host keeps the prompt open while validateInput returns a message
RejectValue(s) ==
    /\ At(s, "value")
    /\ \E v \in Enterable(s) :
         /\ validateInput(v) # NoMessage
         /\ Step(s, [session[s] EXCEPT !.message = validateInput(v)],
                 [ghost[s] EXCEPT !.event = "rejected", !.input = v,
                                  !.read = Parameters])
    /\ UNCHANGED <<nbCells, nbMetadata>>

CancelValueDeletes(s) ==
    /\ At(s, "value")
    /\ Step(s, [session[s] EXCEPT !.pc = "ended"],
            [ghost[s] EXCEPT !.event = "cancelValue"])
    /\ nbMetadata' = JObj(<< <<K_parameters,
            JObj(NewParameters(Parameters, session[s].key, JStr(<<>>)))>> >>)
    /\ UNCHANGED nbCells

CancelValue(s) ==
    /\ At(s, "value")
    /\ Step(s, [session[s] EXCEPT !.pc = "ended"],
            [ghost[s] EXCEPT !.event = "cancelValue"])
    /\ UNCHANGED <<nbCells, nbMetadata>>

\* the prompt returns newValue; the edit is built and handed to applyEdit
AcceptValue(s) ==
    /\ At(s, "value")
    /\ \E newValue \in Enterable(s) :
         /\ validateInput(newValue) = NoMessage
         /\ LET parsed == loosyGoosyJSON(newValue)
            IN  IF parsed = Undefined
                THEN Step(s, [session[s] EXCEPT !.pc = "ended"],
                          [ghost[s] EXCEPT !.event = "parsedUndefined",
                                           !.input = newValue])
                ELSE Step(s, [session[s] EXCEPT
                                !.pc = "apply",
                                !.message = NoMessage,
                                !.edit = JObj(<< <<K_parameters,
                                    JObj(NewParameters(Parameters, session[s].key,
                                                       parsed))>> >>)],
                          [ghost[s] EXCEPT !.event = "accepted", !.input = newValue,
                                           !.parsed = parsed, !.read = Parameters,
                                           !.cells = nbCells])
    /\ UNCHANGED <<nbCells, nbMetadata>>

\* the host applies the edit, the await returns and recurse calls itself
ApplyEditNoRecurse(s) ==
    /\ At(s, "apply")
    /\ nbMetadata' = session[s].edit
    /\ Step(s, [session[s] EXCEPT !.pc = "ended"],
            [ghost[s] EXCEPT !.event = "applied"])
    /\ UNCHANGED nbCells

\* an edit that sets the key in the mapping as it is when the edit is applied
ApplyEditMerges(s) ==
    /\ At(s, "apply")
    /\ nbMetadata' = JObj(<< <<K_parameters,
            JObj(NewParameters(Parameters, session[s].key, ghost[s].parsed))>> >>)
    /\ Step(s, [session[s] EXCEPT !.pc = "recurse"],
            [ghost[s] EXCEPT !.event = "applied"])
    /\ UNCHANGED nbCells

ApplyEdit(s) ==
    /\ At(s, "apply")
    /\ nbMetadata' = session[s].edit
    /\ Step(s, [session[s] EXCEPT !.pc = "recurse"],
            [ghost[s] EXCEPT !.event = "applied"])
    /\ UNCHANGED nbCells


(***************************************************************************)
(* ai-translate.translateDocument                                          *)
(***************************************************************************)
MaxChunks == 3

PromptHead ==
    <<"You are a translator. ", "\n",
      "You will translate the content provided into ">>
PromptMiddle ==
    <<" and return it as valid markdown. ", "\n",
      "First explain potential difficulties one might encounter in ",
      "translating the specific document given into the the translation ",
      "language due to cultural and/or linguistic mismatches, then return ",
      "the translation with the explanation of the specific difficulties, ",
      "and then complete the translation. Explain the difficulties in the ",
      "source language (e.g., English), and translate only in ">>
T_French ==
    <<"F", "r", "e", "n", "c", "h">>
T_German ==
    <<"G", "e", "r", "m", "a", "n">>
T_docId ==
    <<"d", "o", "c">>
T_reply ==
    <<"o", "k">>

\* the instruction of the system cell, templated with the language
SystemPrompt(language) == PromptHead \o language \o PromptMiddle \o language

\* a value that an if or || takes as false
Falsy(x) == Nullish(x) \/ x = JStr(<<>>) \/ x = JBool(FALSE) \/ x = JNum(0)

NoFile == [written |-> FALSE, bytes |-> <<>>]
IdleDriver ==
    [pc |-> "idle", documentId |-> Undefined, documentContent |-> Undefined,
     preSelected |-> Undefined, workspaceFolder |-> FALSE,
     translationLanguage |-> Undefined, i |-> 0, lastCell |-> 0, made |-> <<>>]

DriverIdle ==
    /\ driver = IdleDriver
    /\ file = NoFile
    /\ shown = <<>>
    /\ running = {}
    /\ trace = <<>>

\* the arguments the command is invoked with
Chunks == {<<"a">>, <<"b">>, <<>>}
ContentLists == UNION {[1..k -> Chunks] : k \in 0..MaxChunks}
Arguments ==
    [documentId      : {Undefined, JStr(T_docId)},
     documentContent : {Undefined} \cup
                       {JArr([i \in 1..Len(c) |-> JStr(c[i])]) : c \in ContentLists},
     preSelected     : {Undefined, JStr(T_French)},
     workspaceFolder : BOOLEAN]

Go(to) ==
    /\ driver' = to
    /\ UNCHANGED <<serializerVars, loopVars>>

InvokeTranslate ==
    /\ driver.pc = "idle"
    /\ \E args \in Arguments :
         Go([driver EXCEPT !.pc = "start",
                           !.documentId = args.documentId,
                           !.documentContent = args.documentContent,
                           !.preSelected = args.preSelected,
                           !.workspaceFolder = args.workspaceFolder])
    /\ UNCHANGED <<nbCells, nbMetadata, file, shown, running, trace>>

\* the error is shown and the command goes on, no return
MissingDocumentIdGoesOn ==
    /\ driver.pc = "start"
    /\ Falsy(driver.documentId)
    /\ shown' = Append(shown, "Document ID is required.")
    /\ Go([driver EXCEPT !.pc = "folder", !.translationLanguage = JStr(T_English)])
    /\ UNCHANGED <<nbCells, nbMetadata, file, running, trace>>

MissingDocumentId ==
    /\ driver.pc = "start"
    /\ Falsy(driver.documentId)
    /\ shown' = Append(shown, "Document ID is required.")
    /\ Go([driver EXCEPT !.pc = "done"])
    /\ UNCHANGED <<nbCells, nbMetadata, file, running, trace>>

PreSelectedLanguage ==
    /\ driver.pc = "start"
    /\ ~Falsy(driver.documentId)
    /\ ~Falsy(driver.preSelected)
    /\ Go([driver EXCEPT !.pc = "folder",
                         !.translationLanguage = driver.preSelected])
    /\ UNCHANGED <<nbCells, nbMetadata, file, shown, running, trace>>

PromptLanguage ==
    /\ driver.pc = "start"
    /\ ~Falsy(driver.documentId)
    /\ Falsy(driver.preSelected)
    /\ Go([driver EXCEPT !.pc = "language"])
    /\ UNCHANGED <<nbCells, nbMetadata, file, shown, running, trace>>

\* the input box returns the text entered, or undefined when dismissed
AnswerLanguage ==
    /\ driver.pc = "language"
    /\ \E answer \in {Undefined, JStr(<<>>), JStr(T_German)} :
         Go([driver EXCEPT !.pc = "folder",
                           !.translationLanguage =
                               IF Falsy(answer) THEN JStr(T_English) ELSE answer])
    /\ UNCHANGED <<nbCells, nbMetadata, file, shown, running, trace>>

NoWorkspaceFolder ==
    /\ driver.pc = "folder"
    /\ ~driver.workspaceFolder
    /\ shown' = Append(shown, "No workspace folder found.")
    /\ Go([driver EXCEPT !.pc = "done"])
    /\ UNCHANGED <<nbCells, nbMetadata, file, running, trace>>

\* the notebook decoded from { messages: [], parameters: {} } is encoded and
\* written to the file
WriteFile ==
    /\ driver.pc = "folder"
    /\ driver.workspaceFolder
    /\ \E empty \in {deserializeNotebook(TextEncode(JSONstringify(
                            SerializedNotebook(JArr(<<>>), JObj(<<>>)), 0)))} :
         /\ ~empty.threw
         /\ file' = [written |-> TRUE, bytes |-> serializeNotebook(empty)]
    /\ Go([driver EXCEPT !.pc = "written"])
    /\ UNCHANGED <<nbCells, nbMetadata, shown, running, trace>>

\* the file is opened as a notebook document and shown in an editor
OpenNotebook ==
    /\ driver.pc = "written"
    /\ shown' = Append(shown, "New .llm file created")
    /\ \E nb \in {deserializeNotebook(file.bytes)} :
         /\ ~nb.threw
         /\ nbCells' = nb.cells
         /\ nbMetadata' = nb.metadata
    /\ Go([driver EXCEPT !.pc = "opened"])
    /\ UNCHANGED <<file, running, trace>>

\* notebook.cell.insertCodeCellBelow and notebook.cell.changeLanguage: a new
\* empty code cell at index at, tagged with the language
InsertCell(cells, at, language) ==
    SubSeq(cells, 1, at - 1)
    \o <<NotebookCellData("Code", JStr(<<>>), JStr(language))>>
    \o SubSeq(cells, at, Len(cells))

\* appendContentToCell: the text is appended to the cell's text
AppendContent(cells, at, text) ==
    [cells EXCEPT ![at].value = JStr(cells[at].value.v \o text)]

InsertSystemCell ==
    /\ driver.pc = "opened"
    /\ nbCells' = AppendContent(InsertCell(nbCells, 1, R_system), 1,
                                SystemPrompt(driver.translationLanguage.v))
    /\ trace' = Append(trace, [e |-> "insert", role |-> R_system, n |-> 1])
    /\ Go([driver EXCEPT !.pc = "system", !.made = Append(driver.made, 1)])
    /\ UNCHANGED <<nbMetadata, file, shown, running>>

InsertUserCell ==
    /\ driver.pc = "system"
    /\ nbCells' = InsertCell(nbCells, 2, R_user)
    /\ trace' = Append(trace, [e |-> "insert", role |-> R_user, n |-> 2])
    /\ Go([driver EXCEPT
            !.pc = IF Falsy(driver.documentContent) THEN "done" ELSE "chunk",
            !.i = 1,
            !.made = Append(driver.made, 2)])
    /\ UNCHANGED <<nbMetadata, file, shown, running>>

ChunkAt(i) == driver.documentContent.v[i]

NoMoreChunks ==
    /\ driver.pc = "chunk"
    /\ driver.i > Len(driver.documentContent.v)
    /\ Go([driver EXCEPT !.pc = "done"])
    /\ UNCHANGED <<nbCells, nbMetadata, file, shown, running, trace>>

\* an empty chunk that is executed all the same
SkipChunkExecutes ==
    /\ driver.pc = "chunk"
    /\ driver.i <= Len(driver.documentContent.v)
    /\ Falsy(ChunkAt(driver.i))
    /\ Go([driver EXCEPT !.pc = "execute", !.lastCell = Len(nbCells)])
    /\ UNCHANGED <<nbCells, nbMetadata, file, shown, running, trace>>

SkipChunk ==
    /\ driver.pc = "chunk"
    /\ driver.i <= Len(driver.documentContent.v)
    /\ Falsy(ChunkAt(driver.i))
    /\ Go([driver EXCEPT !.i = driver.i + 1])
    /\ UNCHANGED <<nbCells, nbMetadata, file, shown, running, trace>>

\* the chunk's text is appended to the last cell of the notebook
AppendChunk ==
    /\ driver.pc = "chunk"
    /\ driver.i <= Len(driver.documentContent.v)
    /\ ~Falsy(ChunkAt(driver.i))
    /\ nbCells' = AppendContent(nbCells, Len(nbCells), ChunkAt(driver.i).v)
    /\ trace' = Append(trace, [e |-> "append", role |-> nbCells[Len(nbCells)].languageId.v,
                               n |-> driver.i])
    /\ Go([driver EXCEPT !.pc = "execute", !.lastCell = Len(nbCells)])
    /\ UNCHANGED <<nbMetadata, file, shown, running>>

\* notebook.execute on the cell the chunk was appended to
StartExecution ==
    /\ driver.pc = "execute"
    /\ running' = running \cup {[chunk |-> driver.i, cell |-> driver.lastCell]}
    /\ trace' = Append(trace, [e |-> "start", role |-> <<>>, n |-> driver.i])
    /\ Go([driver EXCEPT !.pc = "await"])
    /\ UNCHANGED <<nbCells, nbMetadata, file, shown>>

\* the cells an execution leaves behind it: none, the assistant's reply, or the
\* reply and a fresh user cell
ExecutionAdds ==
    {<<>>,
     <<NotebookCellData("Code", JStr(T_reply), JStr(R_assistant))>>,
     <<NotebookCellData("Code", JStr(T_reply), JStr(R_assistant)),
       NotebookCellData("Code", JStr(<<>>), JStr(R_user))>>}

\* the controller finishes the execution of a cell
FinishExecution ==
    /\ \E x \in running, adds \in ExecutionAdds :
         /\ running' = running \ {x}
         /\ nbCells' = nbCells \o adds
         /\ trace' = Append(trace, [e |-> "finish", role |-> <<>>, n |-> x.chunk])
    /\ UNCHANGED <<driver, nbMetadata, file, shown>>
    /\ UNCHANGED <<serializerVars, loopVars>>

\* the awaited notebook.execute returns: on to the next chunk
ResumeNoAwait ==
    /\ driver.pc = "await"
    /\ Go([driver EXCEPT !.pc = "chunk", !.i = driver.i + 1])
    /\ UNCHANGED <<nbCells, nbMetadata, file, shown, running, trace>>

Resume ==
    /\ driver.pc = "await"
    /\ \A x \in running : x.chunk # driver.i
    /\ Go([driver EXCEPT !.pc = "chunk", !.i = driver.i + 1])
    /\ UNCHANGED <<nbCells, nbMetadata, file, shown, running, trace>>

NextTranslate ==
    \/ InvokeTranslate \/ MissingDocumentId \/ PreSelectedLanguage
    \/ PromptLanguage \/ AnswerLanguage \/ NoWorkspaceFolder \/ WriteFile
    \/ OpenNotebook \/ InsertSystemCell \/ InsertUserCell
    \/ NoMoreChunks \/ SkipChunk \/ AppendChunk
    \/ StartExecution \/ FinishExecution \/ Resume

InitTranslate ==
    /\ SerializerIdle
    /\ nbCells = <<>>
    /\ nbMetadata = JObj(<<>>)
    /\ Invocations({})
    /\ DriverIdle

InitParameters ==
    /\ SerializerIdle
    /\ \E bytes \in OpenedFiles : NotebookFrom(bytes)
    /\ Invocations({"s1"})
    /\ DriverIdle

\* two invocations of configureParameters on the same notebook
InitOverlap ==
    /\ SerializerIdle
    /\ \E bytes \in {B_wrapped, B_noParameters} : NotebookFrom(bytes)
    /\ Invocations({"s1", "s2"})
    /\ DriverIdle

InitSerializer ==
    /\ \/ phase = "doc" /\ doc \in Documents /\ content = <<>>
       \/ phase = "bytes" /\ doc = NoDoc /\ content \in ByteInputs
    /\ token \in BOOLEAN
    /\ notebook = NotCalled
    /\ nbCells = <<>>
    /\ nbMetadata = JObj(<<>>)
    /\ Invocations({})
    /\ DriverIdle

NextParameters ==
    \E s \in SessionIds :
        \/ Invoke(s) \/ NoNotebook(s) \/ ListingThrows(s) \/ ShowPicker(s)
        \/ DismissPicker(s) \/ PickNew(s) \/ PickExisting(s)
        \/ NoName(s) \/ EnterName(s)
        \/ RejectValue(s) \/ CancelValue(s) \/ AcceptValue(s) \/ ApplyEdit(s)

vars ==
    <<phase, doc, content, token, notebook, nbCells, nbMetadata, session, ghost,
      driver, file, shown, running, trace>>

SpecTranslate == InitTranslate /\ [][NextTranslate]_vars

SpecParameters == InitParameters /\ [][NextParameters]_vars

\* the host applies a pending edit and resumes the awaiting function
FairParameters ==
    /\ SpecParameters
    /\ WF_vars(ApplyEdit("s1")) /\ WF_vars(ShowPicker("s1"))

SpecOverlap == InitOverlap /\ [][NextParameters]_vars

SpecSerializer == InitSerializer /\ [][NextSerializer]_vars

(***************************************************************************)
(* Claims about the serializer                                             *)
(***************************************************************************)
\* the (role, content) pairs of the cells of a decoded notebook
CellPairs(nb) ==
    [i \in 1..Len(nb.cells) |->
        [role |-> nb.cells[i].languageId, content |-> nb.cells[i].value]]
MessagePairs(d) ==
    [i \in 1..Len(d.messages) |->
        [role |-> JStr(d.messages[i].role), content |-> JStr(d.messages[i].content)]]

\* C1: decoding the bytes that encode a document's cell view gives cells whose
\* (role, content) pairs are the document's messages in order, and the
\* document's parameter mapping.
C1_RoundTrip ==
    (phase = "decoded" /\ doc # NoDoc) =>
        /\ ~notebook.threw
        /\ CellPairs(notebook) = MessagePairs(doc)
        /\ Get(notebook.metadata, K_parameters) = doc.parameters

C1_Witness ==
    /\ phase = "decoded"
    /\ doc # NoDoc
    /\ Len(doc.messages) = 2
    /\ doc.messages[1].content = <<"a", "\"", "\\", "\n", "{", " ">>
    /\ Len(doc.parameters.v) = 2
    /\ Len(notebook.cells) = 2

\* C2: decode returns a document for every byte input; it never raises.
C2_DecodeNeverRaises == phase = "decoded" => ~notebook.threw

\* the default document: the system seed, the user placeholder, no parameters
DefaultNotebook ==
    NotebookData(
        << NotebookCellData("Code", JStr(SeedSystemText), JStr(R_system)),
           NotebookCellData("Code", JStr(SeedUserText), JStr(R_user)) >>,
        JObj(<< <<K_parameters, JObj(<<>>)>> >>))

\* C10: decoding empty bytes, or bytes that are not valid JSON, gives the
\* default document: the two seed cells and an empty parameter mapping.
C10_DefaultFallback ==
    (phase = "decoded" /\ doc = NoDoc /\ ~JSONparse(content).ok) =>
        notebook = DefaultNotebook

C10_Witness ==
    /\ phase = "decoded"
    /\ content = B_notJSON
    /\ Len(notebook.cells) = 2

\* the bytes are JSON text of a bare list whose entries are all objects
BareList ==
    /\ JSONparse(content).ok
    /\ JSONparse(content).val.t = "arr"
    /\ \A i \in 1..Len(JSONparse(content).val.v) :
          JSONparse(content).val.v[i].t = "obj"

\* C11: decoding a bare list of {role, content} objects gives an empty
\* parameter mapping and one cell per entry, in order, with the entry's role
\* and content; the empty list gives no cell, not the default document.
C11_LegacyList ==
    (phase = "decoded" /\ doc = NoDoc /\ BareList) =>
        LET list == JSONparse(content).val.v
        IN  /\ ~notebook.threw
            /\ Get(notebook.metadata, K_parameters) = JObj(<<>>)
            /\ notebook.cells =
                  [i \in 1..Len(list) |->
                      NotebookCellData("Code", Get(list[i], K_content),
                                       Get(list[i], K_role))]

C11_Witness ==
    /\ phase = "decoded"
    /\ content = B_legacyTwo
    /\ Len(notebook.cells) = 2
    /\ notebook.cells[2].value = JStr(<<"b">>)
    /\ notebook.cells[2].languageId = JStr(R_user)

\* C12: the encoded bytes hold exactly one message per code cell of the
\* notebook, in cell order, with the cell's language tag as role and its text
\* as content; cells of another kind are left out and the encoding succeeds.
C12_OneMessagePerCodeCell ==
    (phase = "bytes" /\ doc # NoDoc) =>
        LET cells == NotebookOf(doc).cells
            code  == SelectSeq(cells, LAMBDA c : c.kind = "Code")
        IN  /\ JSONparse(TextDecode(content)).ok
            /\ Get(JSONparse(TextDecode(content)).val, K_messages) =
                  JArr([i \in 1..Len(code) |->
                          JObj(<< <<K_content, code[i].value>>,
                                  <<K_role, code[i].languageId>> >>)])

C12_Witness ==
    /\ phase = "bytes"
    /\ Len(doc.messages) = 2
    /\ doc.markup = {0, 2}
    /\ Len(NotebookOf(doc).cells) = 4
    /\ Len(Get(JSONparse(content).val, K_messages).v) = 2

\* C20: called with a cancellation token that is already raised, decode does
\* not build and return the document.
C20_DecodeHonorsCancellation ==
    (phase = "decoded" /\ token) => notebook \in {NotCalled, Thrown}

(***************************************************************************)
(* Claims about the parameter edit loop                                    *)
(***************************************************************************)
Entered(s) == ghost[s].event \in {"rejected", "accepted", "parsedUndefined"}
Rejected(s) ==
    /\ ghost[s].event = "rejected"
    /\ session[s].pc = "value"
    /\ session[s].message = ValidationMessage
    /\ Parameters = ghost[s].read

\* C5, as stated, at the input it names: the entered text `not valid json {`
\* is rejected, the prompt stays open with the validation message and the
\* parameter mapping is unchanged.
C5_NotValidJsonRejected ==
    \A s \in DOMAIN session :
        (Entered(s) /\ ghost[s].input = T_notValid) => Rejected(s)

\* C5, amended: an entered text for which the strict parse fails and the parse
\* of the text wrapped in quotes fails too is rejected: the prompt stays open
\* with the validation message and the parameter mapping is unchanged.
C5_UnparseableRejected ==
    \A s \in DOMAIN session :
        (/\ Entered(s)
         /\ ~JSONparse(ghost[s].input).ok
         /\ ~JSONparse(<<"\"">> \o ghost[s].input \o <<"\"">>).ok) => Rejected(s)

C5_Witness ==
    /\ ghost["s1"].event = "rejected"
    /\ ghost["s1"].input = T_quoteInside
    /\ session["s1"].message = ValidationMessage
    /\ Len(Parameters.v) > 0

\* C6: for every entered text that is valid JSON the value handed to the commit
\* is the strict-JSON value of the text (the quote-wrapped parse is used only
\* when the strict parse fails).
C6_StrictValueCommitted ==
    \A s \in DOMAIN session :
        (ghost[s].event = "accepted" /\ JSONparse(ghost[s].input).ok) =>
            ghost[s].parsed = JSONparse(ghost[s].input).val

\* C7: after a commit of value v for key k the mapping is the one read at the
\* commit except at k: k is absent if v is the empty string and maps to v
\* otherwise; every other key keeps its value, and the cells are unchanged.
C7_CommitEffect ==
    \A s \in DOMAIN session :
        ghost[s].event = "applied" =>
            LET k    == session[s].key
                v    == ghost[s].parsed
                read == ghost[s].read
            IN  /\ Parameters.t = "obj"
                /\ IF v = JStr(<<>>)
                   THEN k \notin OwnKeys(Parameters)
                   ELSE k \in OwnKeys(Parameters) /\ Get(Parameters, k) = v
                /\ OwnKeys(Parameters) \ {k} = OwnKeys(read) \ {k}
                /\ \A other \in OwnKeys(read) \ {k} :
                      Get(Parameters, other) = Get(read, other)
                /\ nbCells = ghost[s].cells

C7_Witness ==
    /\ ghost["s1"].event = "applied"
    /\ ghost["s1"].parsed = JStr(<<>>)
    /\ session["s1"].key \in OwnKeys(ghost["s1"].read)
    /\ Len(ghost["s1"].read.v) = 2
    /\ Len(Parameters.v) = 1
    /\ Len(nbCells) = 1

InLoop(s) ==
    \/ session[s].pc \in {"pick", "name", "value", "apply"}
    \/ session[s].pc = "recurse" /\ session[s].edit # NoEdit

\* C8: after a commit the picker is eventually shown again and lists the
\* mapping as the commit left it; once in the loop, an invocation ends only
\* when the user dismisses the picker or a prompt.
C8_LoopContinues ==
    /\ \A s \in SessionIds : At(s, "apply") ~> At(s, "pick")
    /\ [](\A s \in DOMAIN session :
            (ghost[s].event = "shown" /\ session[s].edit # NoEdit) =>
                /\ Parameters = Get(session[s].edit, K_parameters)
                /\ session[s].listed = Existing(Parameters))
    /\ [][\A s \in DOMAIN session :
            (InLoop(s) /\ session'[s].pc = "ended") =>
                ghost'[s].event \in {"dismissPicker", "noName", "cancelValue"}]_vars

C8_Witness ==
    /\ ghost["s1"].event = "shown"
    /\ session["s1"].pc = "pick"
    /\ session["s1"].edit # NoEdit
    /\ \E i \in 1..Len(session["s1"].listed) :
          /\ session["s1"].listed[i].label = T_lang
          /\ session["s1"].listed[i].value = JStr(T_English)

\* C9: when the user dismisses the picker, gives no name or cancels the value
\* prompt, the loop ends and the parameter mapping is what it was when the
\* iteration began.
C9_DismissalNoOp ==
    \A s \in DOMAIN session :
        ghost[s].event \in {"dismissPicker", "noName", "cancelValue"} =>
            /\ session[s].pc = "ended"
            /\ Parameters = ghost[s].start

C9_Witness ==
    /\ ghost["s1"].event = "cancelValue"
    /\ session["s1"].pc = "ended"
    /\ session["s1"].edit # NoEdit
    /\ Len(Parameters.v) = 2

\* no key of the mapping p maps to the empty string
NoEmptyString(p) ==
    \A i \in 1..Len(ObjectEntries(p)) : ObjectEntries(p)[i][2] # JStr(<<>>)

\* C17: no step of the edit loop stores an empty string: from a mapping in
\* which no key maps to the empty string every step leads to such a mapping.
C17_NoStoredEmptyString ==
    [][NoEmptyString(Parameters) => NoEmptyString(Get(nbMetadata', K_parameters))]_vars

C17_Witness ==
    /\ ghost["s1"].event = "applied"
    /\ ghost["s1"].input = T_emptyString
    /\ session["s1"].key = <<"k">>
    /\ Get(ghost["s1"].read, <<"k">>) = JNum(1)
    /\ NoEmptyString(ghost["s1"].start)
    /\ Parameters = JObj(<<>>)

\* C18: on a notebook that deserializeNotebook returned, the command shows
\* the picker with the notebook's keys; it does not raise.
C18_LoopNeverRaises ==
    \A s \in DOMAIN session :
        /\ ghost[s].event # "TypeError"
        /\ (session[s].target = "notebook" /\ session[s].pc = "ended") =>
              ghost[s].start # Undefined

\* the invocation committed, unchanged, the text the prompt was filled with
Recommitted(s) ==
    /\ ghost[s].event = "applied"
    /\ session[s].value = JStr(ghost[s].input)
    /\ session[s].key \in OwnKeys(ghost[s].read)

\* C19: when the pre-filled text of an existing key is accepted unchanged and
\* the key's value is neither null nor the empty string, the mapping after the
\* commit is the mapping before it.
C19_RecommitNoOp ==
    \A s \in DOMAIN session :
        (/\ Recommitted(s)
         /\ Get(ghost[s].read, session[s].key) \notin {JNull, JStr(<<>>)}) =>
            Parameters = ghost[s].read

C19_Witness ==
    /\ Recommitted("s1")
    /\ Get(ghost["s1"].read, session["s1"].key) = JArr(<<JNum(1), JStr(<<"a">>)>>)
    /\ \E k \in OwnKeys(Parameters) : Get(Parameters, k) = JStr(<<"4", "2">>)
    /\ Parameters = ghost["s1"].read

\* C16: with two invocations on one notebook a commit writes the whole mapping
\* its invocation read before the edit was applied, with its own key changed:
\* what the other invocation committed in between is lost.
C16_LastWriteWins ==
    [][\A s \in SessionIds :
         (At(s, "apply") /\ session'[s].pc = "recurse") =>
             nbMetadata' = JObj(<< <<K_parameters,
                 JObj(NewParameters(ghost[s].read, session[s].key,
                                    ghost[s].parsed))>> >>)]_vars

\* both commits are done and the mapping holds only the second one
C16_Witness ==
    /\ DOMAIN session = {"s1", "s2"}
    /\ ghost["s1"].event = "applied" /\ ghost["s2"].event = "applied"
    /\ session["s1"].key = <<"k">> /\ session["s2"].key = T_lang
    /\ ghost["s1"].parsed = JNum(42) /\ ghost["s2"].parsed = JNum(42)
    /\ Get(ghost["s1"].read, <<"k">>) = JNum(1)
    /\ Get(Parameters, T_lang) = JNum(42)
    /\ Get(Parameters, <<"k">>) = JNum(1)

(***************************************************************************)
(* Claims about translateDocument                                          *)
(***************************************************************************)
\* the events e of the trace before position j, as positions
Before(j, e) == {i \in 1..(j - 1) : trace[i].e = e}

\* C3: a chunk's text is appended before its execution is started, the
\* execution of a chunk has finished before the text of a later chunk is
\* appended, and at most one execution is in flight.
C3_SequentialExecution ==
    /\ Cardinality(running) <= 1
    /\ \A j \in 1..Len(trace) :
        /\ trace[j].e = "start" =>
              \E i \in Before(j, "append") : trace[i].n = trace[j].n
        /\ trace[j].e = "finish" =>
              \E i \in Before(j, "start") : trace[i].n = trace[j].n
        /\ trace[j].e = "append" =>
              \A i \in Before(j, "append") :
                  /\ trace[i].n < trace[j].n
                  /\ \E k \in Before(j, "finish") : trace[k].n = trace[i].n

C3_Witness ==
    /\ driver.pc = "done"
    /\ driver.documentContent = JArr(<<JStr(<<"a">>), JStr(<<>>), JStr(<<"b">>)>>)
    /\ Len(SelectSeq(trace, LAMBDA x : x.e = "finish")) = 2
    /\ Len(nbCells) = 4

\* nothing was written, inserted or executed
NothingDone ==
    /\ ~file.written
    /\ nbCells = <<>>
    /\ trace = <<>>
    /\ running = {}

\* C14: invoked without a document id the command shows the error and does
\* nothing else: no prompt, no file, no cell, no execution.  Invoked with an
\* id and without a workspace folder it shows the error and ends with no
\* file written, no cell inserted and no execution started.
C14_MissingInputAborts ==
    /\ (driver.pc # "idle" /\ Falsy(driver.documentId)) =>
          /\ driver.pc \in {"start", "done"}
          /\ driver.translationLanguage = Undefined
          /\ NothingDone
          /\ shown = IF driver.pc = "done" THEN <<"Document ID is required.">>
                                          ELSE <<>>
    /\ (driver.pc # "idle" /\ ~Falsy(driver.documentId) /\ ~driver.workspaceFolder) =>
          /\ driver.pc \in {"start", "language", "folder", "done"}
          /\ NothingDone
          /\ shown = IF driver.pc = "done" THEN <<"No workspace folder found.">>
                                          ELSE <<>>

C14_Witness ==
    /\ driver.pc = "done"
    /\ driver.documentId = JStr(T_docId)
    /\ ~driver.workspaceFolder
    /\ driver.translationLanguage = JStr(T_German)
    /\ driver.documentContent = JArr(<<JStr(<<"a">>)>>)
    /\ shown = <<"No workspace folder found.">>

\* the places of the non-empty chunks in the content list, none without one
NonEmptyChunks ==
    IF Falsy(driver.documentContent) THEN {}
    ELSE {i \in 1..Len(driver.documentContent.v) : ChunkAt(i) # JStr(<<>>)}
\* the places in the trace of the executions the command started
Started == {j \in 1..Len(trace) : trace[j].e = "start"}

\* C13: no text is appended and no execution is started for an empty chunk;
\* when the command has run to its end it has started one execution for each
\* non-empty chunk and no other, none when no content was supplied.
C13_EmptyChunksSkipped ==
    /\ \A j \in 1..Len(trace) :
          trace[j].e \in {"append", "start"} => trace[j].n \in NonEmptyChunks
    /\ \A j, k \in Started : trace[j].n = trace[k].n => j = k
    /\ (driver.pc = "done" /\ file.written) =>
          /\ {trace[j].n : j \in Started} = NonEmptyChunks
          /\ Cardinality(Started) = Cardinality(NonEmptyChunks)

C13_Witness ==
    /\ driver.pc = "done"
    /\ driver.documentContent = JArr(<<JStr(<<>>), JStr(<<"a">>), JStr(<<>>)>>)
    /\ Cardinality(Started) = 1
    /\ Len(nbCells) >= 2

\* C15: the document the command writes to the file holds the seed turns: a
\* system turn with the instruction templated with the language, then the
\* user turns.
C15_PersistedHasSeedTurns ==
    file.written =>
        LET persisted == deserializeNotebook(file.bytes)
        IN  /\ ~persisted.threw
            /\ Len(persisted.cells) >= 2
            /\ persisted.cells[1] =
                  NotebookCellData("Code",
                      JStr(SystemPrompt(driver.translationLanguage.v)),
                      JStr(R_system))
            /\ \A i \in 2..Len(persisted.cells) :
                  persisted.cells[i].languageId = JStr(R_user)

\* the cells the command itself inserted that are tagged user, in cell order
DriverUserCells ==
    SelectSeq(driver.made, LAMBDA n : nbCells[n].languageId = JStr(R_user))

\* C4, at the chunks it names: for the chunks a, "", b the command creates
\* exactly two user cells, the first holding a and the second b.
C4_OneUserTurnPerChunk ==
    (/\ driver.pc = "done"
     /\ driver.documentContent = JArr(<<JStr(<<"a">>), JStr(<<>>), JStr(<<"b">>)>>)
     /\ file.written) =>
        /\ Len(DriverUserCells) = 2
        /\ nbCells[DriverUserCells[1]].value = JStr(<<"a">>)
        /\ nbCells[DriverUserCells[2]].value = JStr(<<"b">>)

==========================================================================
